---- MODULE Spec2Model ----
(***************************************************************************)
(* A model of rusty_dodger (src/src/main.rs): a Bevy game in which a       *)
(* player rectangle dodges falling enemy rectangles.                       *)
(*                                                                         *)
(* Units.  Lengths are pixels and durations are milliseconds, both         *)
(* integers.  The frame durations the model draws are multiples of 250 ms, *)
(* for which velocity * delta is a whole number of pixels, so the f32      *)
(* arithmetic of the source is exact on every value the model reaches.     *)
(* Halving (size / 2.0, width / 2.0) is modelled exactly by comparing      *)
(* doubled quantities in collide, and is exact on the even widths, heights *)
(* and sizes used elsewhere.                                               *)
(*                                                                         *)
(* Engine.  The Bevy schedule is modelled as one action per frame: the     *)
(* StateTransition schedule (OnExit / OnEnter handlers), then the Update   *)
(* schedule, whose systems carry no ordering constraints (main.rs:61-71    *)
(* has no .chain()) and so run in an order the executor picks, then the    *)
(* deferred Commands of the Update systems.  Keyboard and window events    *)
(* arrive between frames as separate actions.                              *)
(***************************************************************************)
EXTENDS Integers, Sequences, FiniteSets, TLC

VARIABLES
    state,           \* State<GameState>: the current GameState
    next_state,      \* NextState<GameState>: "Unchanged" or the pending state
    players,         \* the entities with the Player component, in spawn order
    enemies,         \* the entities with the Enemy component, in spawn order
    texts,           \* the number of entities with the Text component
    spawn_timer,     \* EnemySpawnTimer(Timer)
    keyboard_input,  \* ButtonInput<KeyCode>, for KeyR: held, and just pressed
    window,          \* the Window component: width and height
    frame,           \* what the last frame's Update schedule did (history)
    playtime,        \* total time (ms) fed to the spawn timer (history)
    spawned,         \* number of enemies spawned so far (history)
    crossing_frames, \* number of frames whose time crossed a period boundary (history)
    resumed_at,      \* play time at the latest restart, 0 before the first (history)
    box_a, box_b,    \* the two boxes handed to collide (SpecCollide only)
    overlap          \* <<>>, or <<b>> once collide has returned b (SpecCollide only)

vars == <<state, next_state, players, enemies, texts, spawn_timer,
          keyboard_input, window, frame, playtime, spawned, crossing_frames,
          resumed_at, box_a, box_b, overlap>>

gameVars == <<state, next_state, players, enemies, texts, spawn_timer,
              keyboard_input, window, frame, playtime, spawned, crossing_frames,
              resumed_at>>

collideVars == <<box_a, box_b, overlap>>

----------------------------------------------------------------------------
(* Bounds of the model *)

\* longest frame, in steps of 250 ms
MaxDeltaSteps == 4

\* total play time fed to the timer, in steps of 250 ms (the earliest
\* collision is at 1750 ms, the earliest spawn after a restart at 2250 ms)
MaxPlaySteps == 9

\* largest |coordinate| of a box centre in SpecCollide
MaxCoord == 2

\* largest box width and height in SpecCollide
MaxSize == 2

\* window widths in SpecMove: 180, 200, ... in this many steps of 20
MaxWidthSteps == 3

----------------------------------------------------------------------------
(* Game constants, main.rs:4-9 *)

PLAYER_SIZE == <<50, 50>>

\* pixels per second
PLAYER_SPEED == 500

ENEMY_SIZE == <<40, 40>>

\* pixels per second
ENEMY_SPEED == 300

\* 0.75 s, in milliseconds
ENEMY_SPAWN_TIME == 750

ArrowKeys == {"ArrowLeft", "ArrowRight"}

GameStates == {"Playing", "GameOver"}

Systems == {"player_movement", "move_entities", "enemy_spawner", "check_collisions"}

\* frame durations (Time::delta), ms
Deltas == {250 * k : k \in 0..MaxDeltaSteps}

\* the window the game is played in
GameWindow == [width |-> 200, height |-> 170]

----------------------------------------------------------------------------
(* Vectors *)

\* Vec3::truncate: drop z
truncate(v) == <<v[1], v[2]>>

\* Vec2::extend
extend(v, z) == <<v[1], v[2], z>>

Abs(n) == IF n < 0 THEN -n ELSE n

\* Vec2::normalize_or_zero, on the axis-aligned vectors player_movement builds
normalize_or_zero(v) ==
    IF v = <<0, 0>> THEN <<0, 0>>
    ELSE <<(IF v[1] > 0 THEN 1 ELSE IF v[1] < 0 THEN -1 ELSE 0),
           (IF v[2] > 0 THEN 1 ELSE IF v[2] < 0 THEN -1 ELSE 0)>>

\* f32::clamp (min <= max on every window the model draws)
clamp(x, lo, hi) == IF x < lo THEN lo ELSE IF x > hi THEN hi ELSE x

\* a movement that leaves delta out: one frame moves by a 250 ms worth
Displacement_per_frame(v, delta) == (v * 250) \div 1000

\* velocity (px/s) * delta (ms) as pixels
Displacement(v, delta) == (v * delta) \div 1000

----------------------------------------------------------------------------
(* collide, main.rs:36-49.  The corners are kept doubled (2*pos -+ size), *)
(* which is the source's pos -+ size/2.0 without rounding.                 *)

collide_loose(pos_a, size_a, pos_b, size_b) ==
    LET a_min == <<2 * pos_a[1] - size_a[1], 2 * pos_a[2] - size_a[2]>>
        a_max == <<2 * pos_a[1] + size_a[1], 2 * pos_a[2] + size_a[2]>>
        b_min == <<2 * pos_b[1] - size_b[1], 2 * pos_b[2] - size_b[2]>>
        b_max == <<2 * pos_b[1] + size_b[1], 2 * pos_b[2] + size_b[2]>>
    IN  a_min[1] <= b_max[1] /\ a_max[1] >= b_min[1] /\
        a_min[2] <= b_max[2] /\ a_max[2] >= b_min[2]

collide_one_sided(pos_a, size_a, pos_b, size_b) ==
    LET a_min == <<2 * pos_a[1] - size_a[1], 2 * pos_a[2] - size_a[2]>>
        a_max == <<2 * pos_a[1] + size_a[1], 2 * pos_a[2] + size_a[2]>>
        b_min == <<2 * pos_b[1] - size_b[1], 2 * pos_b[2] - size_b[2]>>
        b_max == <<2 * pos_b[1] + size_b[1], 2 * pos_b[2] + size_b[2]>>
    IN  a_min[1] < b_max[1] /\
        a_min[2] < b_max[2] /\ a_max[2] > b_min[2]

collide(pos_a, size_a, pos_b, size_b) ==
    LET a_min == <<2 * truncate(pos_a)[1] - size_a[1], 2 * truncate(pos_a)[2] - size_a[2]>>
        a_max == <<2 * truncate(pos_a)[1] + size_a[1], 2 * truncate(pos_a)[2] + size_a[2]>>
        b_min == <<2 * truncate(pos_b)[1] - size_b[1], 2 * truncate(pos_b)[2] - size_b[2]>>
        b_max == <<2 * truncate(pos_b)[1] + size_b[1], 2 * truncate(pos_b)[2] + size_b[2]>>
    IN  a_min[1] < b_max[1] /\ a_max[1] > b_min[1] /\
        a_min[2] < b_max[2] /\ a_max[2] > b_min[2]

----------------------------------------------------------------------------
(* bevy_time::Timer in TimerMode::Repeating, as enemy_spawner uses it      *)
(* (main.rs:55-58, 154, 157).                                              *)

\* Timer::from_seconds(ENEMY_SPAWN_TIME, TimerMode::Repeating)
Timer_from_seconds(duration) ==
    [elapsed |-> 0, duration |-> duration, finished |-> FALSE,
     times_finished_this_tick |-> 0]

Timer_tick_reset(t, delta) ==
    LET e == t.elapsed + delta
    IN  IF e >= t.duration
        THEN [t EXCEPT !.elapsed = 0, !.finished = TRUE,
                       !.times_finished_this_tick = e \div t.duration]
        ELSE [t EXCEPT !.elapsed = e, !.finished = FALSE,
                       !.times_finished_this_tick = 0]

\* Timer::tick: a repeating timer keeps the remainder and counts the periods
Timer_tick(t, delta) ==
    LET e == t.elapsed + delta
    IN  IF e >= t.duration
        THEN [t EXCEPT !.elapsed = e % t.duration, !.finished = TRUE,
                       !.times_finished_this_tick = e \div t.duration]
        ELSE [t EXCEPT !.elapsed = e, !.finished = FALSE,
                       !.times_finished_this_tick = 0]

\* Timer::just_finished
just_finished(t) == t.times_finished_this_tick > 0

----------------------------------------------------------------------------
(* Entities.  A sprite entity is its Transform (translation, scale) and    *)
(* its Velocity.                                                           *)

\* the bundle setup_game spawns, main.rs:86-101
PlayerEntity ==
    [translation |-> <<0, -250, 0>>, scale |-> extend(PLAYER_SIZE, 1),
     velocity |-> <<0, 0>>]

\* the bundle enemy_spawner spawns, main.rs:166-181
EnemyEntity(x, y) ==
    [translation |-> <<x, y, 0>>, scale |-> extend(ENEMY_SIZE, 1),
     velocity |-> <<0, -ENEMY_SPEED>>]

\* rng.gen_range(lo..hi) draws from the half-open range; the model draws
\* its lower end and every 100th pixel above it
gen_range(lo, hi) == {x \in lo..(hi - 1) : (x - lo) % 100 = 0}

NoCommands == [despawn |-> <<>>, spawn |-> <<>>]

----------------------------------------------------------------------------
(* The systems.  Each takes the world w the frame has built so far -- the  *)
(* entities, the resources, the deferred Commands queued this frame and    *)
(* the log of what ran -- and returns the world it leaves.                 *)

\* ButtonInput::pressed
pressed(input, key) == key \in input.pressed

\* ButtonInput::just_pressed
just_pressed(input, key) == key \in input.just_pressed

\* main.rs:84-102.  Runs alone in OnEnter(Playing): its spawn command is
\* applied when that schedule ends.
setup_game(w) == [w EXCEPT !.players = Append(@, PlayerEntity)]

\* a player_movement whose right arrow assigns direction.x instead of adding
player_movement_right_wins(w, input) ==
    IF Len(w.players) = 1
    THEN LET left  == IF pressed(input, "ArrowLeft") THEN 1 ELSE 0
             direction == IF pressed(input, "ArrowRight")
                          THEN <<1, 0>> ELSE <<0 - left, 0>>
             unit == normalize_or_zero(direction)
         IN  [w EXCEPT !.players[1].velocity =
                           <<unit[1] * PLAYER_SPEED, unit[2] * PLAYER_SPEED>>,
                       !.ran = Append(@, "player_movement")]
    ELSE [w EXCEPT !.ran = Append(@, "player_movement")]

\* main.rs:105-122
player_movement(w, input) ==
    IF Len(w.players) = 1
    THEN LET left  == IF pressed(input, "ArrowLeft") THEN 1 ELSE 0
             right == IF pressed(input, "ArrowRight") THEN 1 ELSE 0
             direction == <<0 - left + right, 0>>
             unit == normalize_or_zero(direction)
         IN  [w EXCEPT !.players[1].velocity =
                           <<unit[1] * PLAYER_SPEED, unit[2] * PLAYER_SPEED>>,
                       !.ran = Append(@, "player_movement")]
    ELSE [w EXCEPT !.ran = Append(@, "player_movement")]

\* main.rs:137: translation += velocity.extend(0.0) * delta
Integrate(e, delta) ==
    [e EXCEPT !.translation = <<@[1] + Displacement(e.velocity[1], delta),
                                @[2] + Displacement(e.velocity[2], delta),
                                @[3]>>]

move_entities_unclamped(w, delta, win) ==
    [w EXCEPT !.players = [i \in 1..Len(@) |-> Integrate(@[i], delta)],
              !.enemies = [i \in 1..Len(@) |-> Integrate(@[i], delta)],
              !.ran = Append(@, "move_entities")]

\* a move_entities that drops the enemies that have left through the bottom
move_entities_cull(w, delta, win) ==
    LET half_player_width == PLAYER_SIZE[1] \div 2
        x_min == 0 - (win.width \div 2) + half_player_width
        x_max == (win.width \div 2) - half_player_width
        MovePlayer(e) ==
            LET m == Integrate(e, delta)
            IN  [m EXCEPT !.translation[1] = clamp(@, x_min, x_max)]
        OnScreen(e) == 2 * e.translation[2] + e.scale[2] >= 0 - win.height
    IN  [w EXCEPT !.players = [i \in 1..Len(@) |-> MovePlayer(@[i])],
                  !.enemies = SelectSeq([i \in 1..Len(@) |-> Integrate(@[i], delta)],
                                        OnScreen),
                  !.ran = Append(@, "move_entities")]

\* main.rs:125-144
move_entities(w, delta, win) ==
    LET half_player_width == PLAYER_SIZE[1] \div 2
        x_min == 0 - (win.width \div 2) + half_player_width
        x_max == (win.width \div 2) - half_player_width
        MovePlayer(e) ==
            LET m == Integrate(e, delta)
            IN  [m EXCEPT !.translation[1] = clamp(@, x_min, x_max)]
    IN  [w EXCEPT !.players = [i \in 1..Len(@) |-> MovePlayer(@[i])],
                  !.enemies = [i \in 1..Len(@) |-> Integrate(@[i], delta)],
                  !.ran = Append(@, "move_entities")]

\* a spawn range that forgets the enemy's half width
x_spawn_bounds_full_width(win) ==
    <<0 - (win.width \div 2), win.width \div 2>>

\* x_min and x_max of enemy_spawner, main.rs:159-161
x_spawn_bounds(win) ==
    LET half_enemy_width == ENEMY_SIZE[1] \div 2
    IN  <<0 - (win.width \div 2) + half_enemy_width,
          (win.width \div 2) - half_enemy_width>>

\* the values the game draws x from, main.rs:173
x_spawn_range(win) == gen_range(x_spawn_bounds(win)[1], x_spawn_bounds(win)[2])

\* every whole pixel rng.gen_range(x_min..x_max) can return
x_spawn_pixels(win) == x_spawn_bounds(win)[1]..(x_spawn_bounds(win)[2] - 1)

enemy_spawner_catch_up(w, delta, win, x) ==
    LET t == Timer_tick(w.spawn_timer, delta)
        y_spawn_pos == win.height \div 2
    IN  [w EXCEPT !.spawn_timer = t,
                  !.commands.spawn =
                      @ \o [i \in 1..t.times_finished_this_tick |->
                                EnemyEntity(x, y_spawn_pos)],
                  !.ran = Append(@, "enemy_spawner")]

\* main.rs:147-183; x is the value gen_range returns
enemy_spawner(w, delta, win, x) ==
    LET t == Timer_tick(w.spawn_timer, delta)
        y_spawn_pos == win.height \div 2
    IN  IF just_finished(t)
        THEN [w EXCEPT !.spawn_timer = t,
                       !.commands.spawn = Append(@, EnemyEntity(x, y_spawn_pos)),
                       !.ran = Append(@, "enemy_spawner")]
        ELSE [w EXCEPT !.spawn_timer = t,
                       !.ran = Append(@, "enemy_spawner")]

\* the loop of main.rs:193-206 over the enemies in the order scan lists them
RECURSIVE scan_enemies_no_break(_, _)
scan_enemies_no_break(w, scan) ==
    IF scan = <<>> THEN w
    ELSE LET p == w.players[1]
             e == w.enemies[Head(scan)]
         IN  IF collide(p.translation, truncate(p.scale),
                        e.translation, truncate(e.scale))
             THEN scan_enemies_no_break(
                      [w EXCEPT !.commands.despawn = Append(@, 1),
                                !.next_state = "GameOver"],
                      Tail(scan))
             ELSE scan_enemies_no_break(w, Tail(scan))

RECURSIVE scan_enemies_keep_player(_, _)
scan_enemies_keep_player(w, scan) ==
    IF scan = <<>> THEN w
    ELSE LET p == w.players[1]
             e == w.enemies[Head(scan)]
         IN  IF collide(p.translation, truncate(p.scale),
                        e.translation, truncate(e.scale))
             THEN [w EXCEPT !.next_state = "GameOver"]
             ELSE scan_enemies_keep_player(w, Tail(scan))

RECURSIVE scan_enemies_x_only(_, _)
scan_enemies_x_only(w, scan) ==
    IF scan = <<>> THEN w
    ELSE LET p == w.players[1]
             e == w.enemies[Head(scan)]
         IN  IF 2 * Abs(p.translation[1] - e.translation[1]) < p.scale[1] + e.scale[1]
             THEN [w EXCEPT !.commands.despawn = Append(@, 1),
                            !.next_state = "GameOver"]
             ELSE scan_enemies_x_only(w, Tail(scan))

\* a loop whose break is outside the if: it tests the first enemy only
scan_enemies_first_only(w, scan) ==
    IF scan = <<>> THEN w
    ELSE LET p == w.players[1]
             e == w.enemies[Head(scan)]
         IN  IF collide(p.translation, truncate(p.scale),
                        e.translation, truncate(e.scale))
             THEN [w EXCEPT !.commands.despawn = Append(@, 1),
                            !.next_state = "GameOver"]
             ELSE w

RECURSIVE scan_enemies(_, _)
scan_enemies(w, scan) ==
    IF scan = <<>> THEN w
    ELSE LET p == w.players[1]
             e == w.enemies[Head(scan)]
         IN  IF collide(p.translation, truncate(p.scale),
                        e.translation, truncate(e.scale))
             THEN [w EXCEPT !.commands.despawn = Append(@, 1),
                            !.next_state = "GameOver"]
             ELSE scan_enemies(w, Tail(scan))

\* whether the single Player's box overlaps some Enemy's box in w
Overlapping(w) ==
    /\ Len(w.players) = 1
    /\ \E i \in 1..Len(w.enemies) :
          /\ 2 * Abs(w.players[1].translation[1] - w.enemies[i].translation[1])
                < w.players[1].scale[1] + w.enemies[i].scale[1]
          /\ 2 * Abs(w.players[1].translation[2] - w.enemies[i].translation[2])
                < w.players[1].scale[2] + w.enemies[i].scale[2]

\* main.rs:186-208, with the enemy query iterated in the order scan.  The
\* log keeps whether the boxes overlapped in the world the system saw.
check_collisions_in_order(w, scan) ==
    IF Len(w.players) = 1
    THEN [scan_enemies(w, scan) EXCEPT !.ran = Append(@, "check_collisions"),
                                       !.overlapped = Overlapping(w)]
    ELSE [w EXCEPT !.ran = Append(@, "check_collisions")]

\* main.rs:186-208, with the enemy query iterated in storage order
check_collisions(w) ==
    check_collisions_in_order(w, [i \in 1..Len(w.enemies) |-> i])

\* main.rs:211-218.  Runs alone in OnEnter(GameOver).
game_over_message(w) == [w EXCEPT !.texts = @ + 1]

restart_game_on_held(w, input) ==
    IF pressed(input, "KeyR")
    THEN [w EXCEPT !.next_state = "Playing", !.ran = Append(@, "restart_game")]
    ELSE [w EXCEPT !.ran = Append(@, "restart_game")]

\* main.rs:221-228
restart_game(w, input) ==
    IF just_pressed(input, "KeyR")
    THEN [w EXCEPT !.next_state = "Playing", !.ran = Append(@, "restart_game")]
    ELSE [w EXCEPT !.ran = Append(@, "restart_game")]

despawn_enemies_only(w) == [w EXCEPT !.enemies = <<>>]

\* main.rs:231-238.  Runs alone in OnExit(GameOver).
despawn_all_entities(w) == [w EXCEPT !.enemies = <<>>, !.texts = 0]

----------------------------------------------------------------------------
(* The schedules of main.rs:51-75 *)

Range(f) == {f[i] : i \in DOMAIN f}

\* The orders in which the executor may run the four Update systems of
\* main.rs:61-70, which are registered without ordering constraints.
\* enemy_spawner shares no data with the other three (it touches the timer
\* and queues a command), so where it runs among them changes nothing: the
\* model keeps it in its declared place, third, and permutes the others.
\* Likewise player_movement (which writes the Player's Velocity and nothing
\* else) and check_collisions (which reads Transforms and queues commands)
\* commute when one runs right after the other, with or without
\* enemy_spawner between them: of such a pair the model keeps the order with
\* player_movement first.  What is left is every way move_entities can fall
\* before or after each of the two.
Orders ==
    {o \in [1..4 -> Systems] :
        /\ Range(o) = Systems
        /\ o[3] = "enemy_spawner"
        /\ ~(o[1] = "check_collisions" /\ o[2] = "player_movement")
        /\ ~(o[2] = "check_collisions" /\ o[4] = "player_movement")}

\* the order in which main.rs:63-68 lists them
DeclaredOrder ==
    <<"player_movement", "move_entities", "enemy_spawner", "check_collisions">>

\* OnExit(GameState::GameOver), main.rs:73
OnExit(s, w) == IF s = "GameOver" THEN despawn_all_entities(w) ELSE w

\* an entry to Playing that also starts the spawn timer afresh
OnEnter_fresh_timer(s, w) ==
    IF s = "Playing"
    THEN [setup_game(w) EXCEPT !.spawn_timer = Timer_from_seconds(ENEMY_SPAWN_TIME)]
    ELSE game_over_message(w)

\* OnEnter(GameState::Playing) and OnEnter(GameState::GameOver), main.rs:60, 72
OnEnter(s, w) == IF s = "Playing" THEN setup_game(w) ELSE game_over_message(w)

\* The StateTransition schedule: a pending NextState that differs from the
\* current state is applied, running the exit and then the enter handlers.
StateTransition(w) ==
    IF w.next_state \in GameStates /\ w.next_state # w.state
    THEN [OnEnter(w.next_state, OnExit(w.state, w))
             EXCEPT !.state = w.next_state, !.next_state = "Unchanged"]
    ELSE [w EXCEPT !.next_state = "Unchanged"]

RunSystem(name, w, input, delta, win, x) ==
    CASE name = "player_movement"  -> player_movement(w, input)
      [] name = "move_entities"    -> move_entities(w, delta, win)
      [] name = "enemy_spawner"    -> enemy_spawner(w, delta, win, x)
      [] name = "check_collisions" -> check_collisions(w)

RECURSIVE RunSystems(_, _, _, _, _, _)
RunSystems(order, w, input, delta, win, x) ==
    IF order = <<>> THEN w
    ELSE RunSystems(Tail(order),
                    RunSystem(Head(order), w, input, delta, win, x),
                    input, delta, win, x)

UpdateUngated(order, w, input, delta, win, x) ==
    restart_game(RunSystems(order, w, input, delta, win, x), input)

\* The Update schedule, main.rs:61-71: the four game systems run_if
\* in_state(Playing), restart_game run_if in_state(GameOver).
Update(order, w, input, delta, win, x) ==
    IF w.state = "Playing"
    THEN RunSystems(order, w, input, delta, win, x)
    ELSE restart_game(w, input)

\* The deferred Commands of the Update systems, applied when the schedule
\* ends: the despawned Player entities go, the spawned enemies arrive.
ApplyCommands(w) ==
    LET gone == Range(w.commands.despawn)
        keep == {i \in 1..Len(w.players) : i \notin gone}
        Nth(S, n) == CHOOSE i \in S : Cardinality({j \in S : j < i}) = n - 1
    IN  [w EXCEPT !.players = [n \in 1..Cardinality(keep) |-> w.players[Nth(keep, n)]],
                  !.enemies = @ \o w.commands.spawn]

\* the world a frame starts from
World ==
    [state |-> state, next_state |-> next_state, players |-> players,
     enemies |-> enemies, texts |-> texts, spawn_timer |-> spawn_timer,
     commands |-> NoCommands, overlapped |-> FALSE, ran |-> <<>>]

\* One frame: StateTransition, Update, then the deferred commands.
FrameResult(order, input, delta, win, x) ==
    ApplyCommands(Update(order, StateTransition(World), input, delta, win, x))

----------------------------------------------------------------------------
(* The game *)

\* What the last frame did, kept for the properties: the systems it ran,
\* whether it was empty (no time elapsed, no key down), the period boundaries
\* the play time crossed in it, and the commands it queued.
NoFrame ==
    [ran |-> {}, empty |-> FALSE, crossings |-> 0, overlapped |-> FALSE,
     despawns |-> 0, spawns |-> 0]

\* After App::run has started: GameState is its default, Playing, whose
\* OnEnter handler has run; the timer is fresh; no key is down.
InitGame ==
    /\ state = "Playing"
    /\ next_state = "Unchanged"
    /\ players = setup_game([players |-> <<>>]).players
    /\ enemies = <<>>
    /\ texts = 0
    /\ spawn_timer = Timer_from_seconds(ENEMY_SPAWN_TIME)
    /\ keyboard_input = [pressed |-> {}, just_pressed |-> {}]
    /\ window = GameWindow
    /\ frame = NoFrame
    /\ playtime = 0
    /\ spawned = 0
    /\ crossing_frames = 0
    /\ resumed_at = 0

\* period boundaries the cumulative play time crosses when delta is added
Crossings(delta) ==
    ((playtime + delta) \div ENEMY_SPAWN_TIME) - (playtime \div ENEMY_SPAWN_TIME)

\* the part of a frame's length that reached the spawn timer: all of it when
\* enemy_spawner ran, none when it did not
Fed(r, delta) == IF "enemy_spawner" \in Range(r.ran) THEN delta ELSE 0

\* the state a frame of length delta leaves, from the world r it computed
\* with the keys input held
Finish(r, input, delta) ==
    /\ state' = r.state
    /\ next_state' = r.next_state
    /\ players' = r.players
    /\ enemies' = r.enemies
    /\ texts' = r.texts
    /\ spawn_timer' = r.spawn_timer
    \* ButtonInput::clear, which opens the next frame's input handling
    /\ keyboard_input' = [keyboard_input EXCEPT !.just_pressed = {}]
    /\ frame' = [ran |-> Range(r.ran),
                 empty |-> (delta = 0 /\ input.pressed = {}),
                 crossings |-> Crossings(Fed(r, delta)),
                 overlapped |-> r.overlapped,
                 despawns |-> Len(r.commands.despawn),
                 spawns |-> Len(r.commands.spawn)]
    /\ playtime' = playtime + Fed(r, delta)
    /\ spawned' = spawned + Len(r.commands.spawn)
    /\ crossing_frames' =
         crossing_frames + (IF Crossings(Fed(r, delta)) > 0 THEN 1 ELSE 0)
    /\ resumed_at' = (IF state = "GameOver" /\ r.state = "Playing"
                      THEN playtime ELSE resumed_at)
    /\ UNCHANGED <<window, collideVars>>

\* the values gen_range may return in a frame of length delta (one value
\* stands for all when the timer does not fire and none is drawn)
XDraws(delta) ==
    IF just_finished(Timer_tick(spawn_timer, delta))
    THEN x_spawn_range(window)
    ELSE {0}

\* What the systems read of the keyboard in a frame: the state of KeyR,
\* which the key events below maintain, and the arrow keys held, which are
\* read as levels only and are drawn afresh for each frame.
Input(arrows) ==
    [pressed |-> keyboard_input.pressed \cup arrows,
     just_pressed |-> keyboard_input.just_pressed]

\* A frame that Update runs in Playing: it lasts delta, and the executor
\* runs the four systems in some order.
PlayingFrame ==
    /\ StateTransition(World).state = "Playing"
    /\ \E delta \in Deltas, order \in Orders, arrows \in SUBSET ArrowKeys :
         /\ playtime + delta <= 250 * MaxPlaySteps
         /\ \E x \in XDraws(delta) :
              Finish(FrameResult(order, Input(arrows), delta, window, x),
                     Input(arrows), delta)

\* A frame that Update runs in GameOver: it lasts delta, and only
\* restart_game runs, which reads no time.
GameOverFrame ==
    /\ StateTransition(World).state = "GameOver"
    /\ \E delta \in Deltas, arrows \in SUBSET ArrowKeys :
         Finish(FrameResult(DeclaredOrder, Input(arrows), delta, window, 0),
                Input(arrows), delta)

\* KeyR goes down between two frames (ButtonInput::press).
KeyPress ==
    /\ "KeyR" \notin keyboard_input.pressed
    /\ keyboard_input' = [pressed |-> keyboard_input.pressed \cup {"KeyR"},
                          just_pressed |-> keyboard_input.just_pressed \cup {"KeyR"}]
    /\ UNCHANGED <<state, next_state, players, enemies, texts, spawn_timer,
                   window, frame, playtime, spawned, crossing_frames, resumed_at,
                   collideVars>>

\* KeyR goes up between two frames (ButtonInput::release).
KeyRelease ==
    /\ "KeyR" \in keyboard_input.pressed
    /\ keyboard_input' = [keyboard_input EXCEPT !.pressed = @ \ {"KeyR"}]
    /\ UNCHANGED <<state, next_state, players, enemies, texts, spawn_timer,
                   window, frame, playtime, spawned, crossing_frames, resumed_at,
                   collideVars>>

Init ==
    /\ InitGame
    /\ box_a = [pos |-> <<0, 0, 0>>, size |-> <<0, 0>>]
    /\ box_b = [pos |-> <<0, 0, 0>>, size |-> <<0, 0>>]
    /\ overlap = <<>>

Next ==
    \/ PlayingFrame
    \/ GameOverFrame
    \/ KeyPress
    \/ KeyRelease

Spec == Init /\ [][Next]_vars

----------------------------------------------------------------------------
(* collide as a pure function: the two boxes are drawn from all centres    *)
(* and sizes within the bounds, and one call is made.                      *)

Coords == (0 - MaxCoord)..MaxCoord

Sizes == 0..MaxSize

InitCollide ==
    /\ InitGame
    /\ box_a \in [pos : (0..MaxCoord) \X (0..MaxCoord) \X {0}, size : Sizes \X Sizes]
    /\ box_b \in [pos : Coords \X Coords \X {1}, size : Sizes \X Sizes]
    /\ overlap = <<>>

CallCollide ==
    /\ overlap = <<>>
    /\ overlap' = <<collide(box_a.pos, box_a.size, box_b.pos, box_b.size)>>
    /\ UNCHANGED <<box_a, box_b, gameVars>>

NextCollide == CallCollide

SpecCollide == InitCollide /\ [][NextCollide]_vars

----------------------------------------------------------------------------
(* move_entities as a pure function: one call on a world that holds a      *)
(* Player anywhere the widest window allows, moving either way or at rest, *)
(* and an Enemy, in a window of any of the widths.                         *)

MoveWidths == {180 + 20 * k : k \in 0..MaxWidthSteps}

MoveXs == {5 * k : k \in (0 - 2 * MaxWidthSteps - 13)..(2 * MaxWidthSteps + 13)}

InitMove ==
    /\ state = "Playing"
    /\ next_state = "Unchanged"
    /\ \E x \in MoveXs, v \in {0 - PLAYER_SPEED, 0, PLAYER_SPEED} :
          players = <<[PlayerEntity EXCEPT !.translation = <<x, -250, 0>>,
                                           !.velocity = <<v, 0>>]>>
    /\ enemies = <<EnemyEntity(150, 85)>>
    /\ texts = 0
    /\ spawn_timer = Timer_from_seconds(ENEMY_SPAWN_TIME)
    /\ keyboard_input = [pressed |-> {}, just_pressed |-> {}]
    /\ window \in {[width |-> wd, height |-> 170] : wd \in MoveWidths}
    /\ frame = NoFrame
    /\ playtime = 0
    /\ spawned = 0
    /\ crossing_frames = 0
    /\ resumed_at = 0
    /\ box_a = [pos |-> <<0, 0, 0>>, size |-> <<0, 0>>]
    /\ box_b = [pos |-> <<0, 0, 0>>, size |-> <<0, 0>>]
    /\ overlap = <<>>

CallMoveEntities ==
    /\ frame.ran = {}
    /\ \E delta \in Deltas :
          LET r == move_entities(World, delta, window)
          IN  /\ players' = r.players
              /\ enemies' = r.enemies
              /\ frame' = [frame EXCEPT !.ran = Range(r.ran)]
              /\ playtime' = delta
    /\ UNCHANGED <<state, next_state, texts, spawn_timer, keyboard_input,
                   window, spawned, crossing_frames, resumed_at,
                   collideVars>>

NextMove == CallMoveEntities

SpecMove == InitMove /\ [][NextMove]_vars

----------------------------------------------------------------------------
(* enemy_spawner on its own: one call on a window of any of the widths and *)
(* heights below, with the timer anywhere in its period, a tick of any     *)
(* length and any pixel of the range drawn, followed by the application of *)
(* its commands.                                                           *)

SpawnHeights == {120, 170}

InitSpawn ==
    /\ state = "Playing"
    /\ next_state = "Unchanged"
    /\ players = <<PlayerEntity>>
    /\ enemies = <<>>
    /\ texts = 0
    /\ \E e \in {d \in Deltas : d < ENEMY_SPAWN_TIME} :
          spawn_timer = [Timer_from_seconds(ENEMY_SPAWN_TIME) EXCEPT !.elapsed = e]
    /\ keyboard_input = [pressed |-> {}, just_pressed |-> {}]
    /\ window \in {[width |-> wd, height |-> ht] : wd \in MoveWidths, ht \in SpawnHeights}
    /\ frame = NoFrame
    /\ playtime = 0
    /\ spawned = 0
    /\ crossing_frames = 0
    /\ resumed_at = 0
    /\ box_a = [pos |-> <<0, 0, 0>>, size |-> <<0, 0>>]
    /\ box_b = [pos |-> <<0, 0, 0>>, size |-> <<0, 0>>]
    /\ overlap = <<>>

CallEnemySpawner ==
    /\ frame.ran = {}
    /\ \E delta \in Deltas, x \in x_spawn_pixels(window) :
          LET r == ApplyCommands(enemy_spawner(World, delta, window, x))
          IN  /\ enemies' = r.enemies
              /\ spawn_timer' = r.spawn_timer
              /\ frame' = [frame EXCEPT !.ran = Range(r.ran),
                                        !.spawns = Len(r.commands.spawn)]
              /\ playtime' = delta
              /\ spawned' = Len(r.commands.spawn)
    /\ UNCHANGED <<state, next_state, players, texts, keyboard_input,
                   window, crossing_frames, resumed_at,
                   collideVars>>

NextSpawn == CallEnemySpawner

SpecSpawn == InitSpawn /\ [][NextSpawn]_vars

----------------------------------------------------------------------------
(* Claims *)

\* C1: in every reachable state at most one Player entity exists while
\* GameState = Playing, and none exists while GameState = GameOver.
C1_PlayerCount ==
    /\ state = "Playing" => Len(players) <= 1
    /\ state = "GameOver" => Len(players) = 0

\* C1 witness: play has resumed after a restart (enemies were spawned and
\* have been cleared) with exactly one Player.
C1_Witness ==
    /\ state = "Playing"
    /\ Len(players) = 1
    /\ spawned > 0
    /\ enemies = <<>>
    /\ frame.ran = Systems

\* C2: a Playing frame in which check_collisions sees the Player's box
\* overlap an Enemy's box leaves no Player, exactly one despawn command and
\* a pending GameOver, which the next StateTransition applies, once (its
\* OnEnter handler shows one message).  The scan queues exactly one despawn
\* even over a list in which every enemy, and so every overlapping enemy,
\* occurs twice.  The spec's example boxes overlap.
C2_CollisionEndsGame ==
    /\ collide(<<0, -250, 0>>, <<50, 50>>, <<0, -250, 0>>, <<40, 40>>)
    /\ frame.overlapped =>
          /\ players = <<>>
          /\ frame.despawns = 1
          /\ state = "Playing"
          /\ next_state = "GameOver"
          /\ StateTransition(World).state = "GameOver"
          /\ StateTransition(World).next_state = "Unchanged"
          /\ StateTransition(World).texts = 1
    /\ Len(players) = 1 =>
          LET doubled == check_collisions([World EXCEPT !.enemies = @ \o @])
          IN  /\ Len(doubled.commands.despawn) = IF Overlapping(World) THEN 1 ELSE 0
              /\ Overlapping(World) => doubled.next_state = "GameOver"

\* C2 witness: the frame just run found a collision and removed the Player.
C2_Witness ==
    /\ frame.overlapped
    /\ frame.despawns = 1
    /\ players = <<>>
    /\ state = "Playing"
    /\ next_state = "GameOver"

\* C3: a transition to Playing is requested only by a frame run in GameOver
\* in which KeyR was just pressed, and such a frame always requests it; a
\* frame run in GameOver without a fresh press (KeyR up, or merely held,
\* whatever the arrow keys) requests nothing; and GameState leaves GameOver
\* only on such a request.
C3_OnlyFreshRRestarts ==
    [][ /\ (next_state # "Playing" /\ next_state' = "Playing")
            => (state' = "GameOver" /\ "KeyR" \in keyboard_input.just_pressed)
        /\ (state = "GameOver" /\ state' = "Playing") => next_state = "Playing"
        /\ (state' = "GameOver" /\ keyboard_input'.pressed = keyboard_input.pressed)
            => (next_state' = IF "KeyR" \in keyboard_input.just_pressed
                              THEN "Playing" ELSE "Unchanged")
      ]_vars

\* C3 witness: a GameOver frame has run with KeyR held but not freshly
\* pressed, and no restart is pending.
C3_Witness ==
    /\ state = "GameOver"
    /\ "restart_game" \in frame.ran
    /\ "KeyR" \in keyboard_input.pressed
    /\ "KeyR" \notin keyboard_input.just_pressed
    /\ next_state = "Unchanged"

\* C4: when a restart is pending in GameOver, the state transition that
\* applies it leaves GameState = Playing, no Enemy, no message, and exactly
\* one Player, at (0, -250) with velocity (0, 0).
C4_RestartResets ==
    (state = "GameOver" /\ next_state = "Playing") =>
        LET t == StateTransition(World)
        IN  /\ t.state = "Playing"
            /\ t.enemies = <<>>
            /\ t.texts = 0
            /\ Len(t.players) = 1
            /\ truncate(t.players[1].translation) = <<0, -250>>
            /\ t.players[1].velocity = <<0, 0>>

\* C4 witness: a restart is pending while enemies and the message exist.
C4_Witness ==
    /\ state = "GameOver"
    /\ next_state = "Playing"
    /\ enemies # <<>>
    /\ texts = 1

\* what a frame leaves, apart from the log of the systems that ran
Outcome(r) ==
    <<r.state, r.next_state, r.players, r.enemies, r.texts, r.spawn_timer>>

\* C5: the systems that ran in a frame are the four game systems if
\* GameState was Playing in it and restart_game alone if it was GameOver;
\* no restart is ever pending in Playing; and a frame run in Playing
\* leaves the same state and entities whether or not KeyR is pressed
\* (compared in the states where KeyR has just been pressed: every world
\* occurs in one, since the key can go down before any frame).
C5_Gating ==
    /\ (frame.ran # {} /\ state = "Playing") => frame.ran = Systems
    /\ (frame.ran # {} /\ state = "GameOver") => frame.ran = {"restart_game"}
    /\ state = "Playing" => next_state # "Playing"
    /\ (/\ StateTransition(World).state = "Playing"
        /\ "KeyR" \in keyboard_input.pressed
        /\ "KeyR" \in keyboard_input.just_pressed) =>
          \A order \in Orders, delta \in Deltas :
              LET x == CHOOSE v \in x_spawn_range(window) : TRUE
                  none == [pressed |-> {}, just_pressed |-> {}]
              IN  Outcome(FrameResult(order, Input({}), delta, window, x))
                    = Outcome(FrameResult(order, none, delta, window, x))

\* C5 witness: KeyR has just been pressed while Playing, with a Player and
\* enemies present.
C5_Witness ==
    /\ state = "Playing"
    /\ next_state = "Unchanged"
    /\ "KeyR" \in keyboard_input.just_pressed
    /\ Len(players) = 1
    /\ enemies # <<>>

\* C6: GameOver is requested only by a Playing frame in which a Player
\* existed and its box overlapped an Enemy's box when check_collisions ran;
\* a Playing frame in which there was no such overlap (no enemy, or none
\* overlapping) requests nothing and keeps the Player.
C6_OnlyCollisionEndsGame ==
    /\ next_state = "GameOver" => (state = "Playing" /\ frame.overlapped)
    /\ (frame.ran = Systems /\ ~frame.overlapped) =>
          (state = "Playing" /\ next_state = "Unchanged" /\ Len(players) = 1)

\* C6 witness: a Playing frame has run with an enemy level with the Player
\* but beside it, and play goes on.
C6_Witness ==
    /\ frame.ran = Systems
    /\ ~frame.overlapped
    /\ next_state = "Unchanged"
    /\ Len(players) = 1
    /\ \E i \in 1..Len(enemies) :
          /\ Abs(enemies[i].translation[2] - players[1].translation[2]) < 45
          /\ Abs(enemies[i].translation[1] - players[1].translation[1]) >= 45

----------------------------------------------------------------------------
(* Claims about collide, under SpecCollide *)

\* C7: collide is true exactly when |dx| < (w1+w2)/2 and |dy| < (h1+h2)/2,
\* strictly: boxes that touch edge to edge on an axis do not collide.
C7_CollideIffStrict ==
    overlap # <<>> =>
        overlap[1] =
            (/\ 2 * Abs(box_a.pos[1] - box_b.pos[1]) < box_a.size[1] + box_b.size[1]
             /\ 2 * Abs(box_a.pos[2] - box_b.pos[2]) < box_a.size[2] + box_b.size[2])

\* C7 witness: two boxes that touch exactly on the x axis and overlap on
\* the y axis were found not to collide.
C7_Witness ==
    /\ overlap = <<FALSE>>
    /\ box_a.size[1] > 0 /\ box_b.size[1] > 0
    /\ 2 * Abs(box_a.pos[1] - box_b.pos[1]) = box_a.size[1] + box_b.size[1]
    /\ 2 * Abs(box_a.pos[2] - box_b.pos[2]) < box_a.size[2] + box_b.size[2]

\* C8: collide is symmetric: collide(A, B) = collide(B, A).
C8_CollideSymmetric ==
    overlap # <<>> =>
        overlap[1] = collide(box_b.pos, box_b.size, box_a.pos, box_a.size)

\* C8 witness: two boxes of different sizes at different places collide.
C8_Witness ==
    /\ overlap = <<TRUE>>
    /\ box_a.size # box_b.size
    /\ truncate(box_a.pos) # truncate(box_b.pos)

----------------------------------------------------------------------------
(* Claims about movement and spawning *)

\* C9 (SpecMove): once move_entities has run, the Player's x lies in
\* [-W/2 + 25, W/2 - 25], W being the window's width, whatever the
\* Player's velocity and the frame's duration.
C9_PlayerInBounds ==
    "move_entities" \in frame.ran =>
        \A i \in 1..Len(players) :
            /\ 2 * players[i].translation[1] >= 2 * 25 - window.width
            /\ 2 * players[i].translation[1] <= window.width - 2 * 25

\* C9 witness: after a frame of positive duration the Player, moving
\* right, stands on the right bound of the narrowest window.
C9_Witness ==
    /\ "move_entities" \in frame.ran
    /\ playtime > 0
    /\ Len(players) = 1
    /\ players[1].velocity[1] > 0
    /\ window.width = 180
    /\ 2 * players[1].translation[1] = window.width - 2 * 25

\* C10 as stated: the number of enemies spawned equals the number of period
\* boundaries the cumulative play time has crossed.
C10_OnePerBoundary == spawned = playtime \div ENEMY_SPAWN_TIME

\* C10 as amended: the number of enemies spawned equals the number of
\* frames whose elapsed time crossed at least one period boundary of the
\* cumulative play time, however the time is split across frames.
C10_OnePerCrossingFrame == spawned = crossing_frames

\* C10 witness: two enemies were spawned by two frames that each crossed
\* a boundary, the second on time carried over from the first.
C10_Witness ==
    /\ crossing_frames = 2
    /\ spawned = 2
    /\ playtime \div ENEMY_SPAWN_TIME = 2
    /\ spawn_timer.elapsed > 0

----------------------------------------------------------------------------
\* C11: a frame queues at most one Enemy, however many period boundaries
\* of the play time its elapsed time crossed, and it queues one exactly when
\* it crossed at least one; a frame that crossed none queues none.
C11_AtMostOnePerFrame ==
    /\ frame.spawns <= 1
    /\ frame.spawns = 1 <=> frame.crossings >= 1
    /\ frame.crossings = 0 => frame.spawns = 0

\* C11 witness: the last frame was so long that it crossed two period
\* boundaries, and it queued one Enemy.
C11_Witness ==
    /\ "enemy_spawner" \in frame.ran
    /\ frame.crossings >= 2
    /\ frame.spawns = 1

----------------------------------------------------------------------------
\* the positions of a sequence of entities
Translations(es) == [i \in DOMAIN es |-> es[i].translation]

\* A step that is an empty tick: a frame in which no time elapsed, run while
\* no key is down and none was pressed since the frame before.
EmptyTick ==
    /\ keyboard_input.pressed = {}
    /\ keyboard_input.just_pressed = {}
    /\ keyboard_input' = keyboard_input
    /\ frame'.ran # {}
    /\ frame'.empty

\* C12 as stated: an empty tick changes no entity position, spawns no enemy
\* and leaves GameState as it was, from any reachable state.
C12_EmptyTickIdle ==
    [][EmptyTick =>
          /\ Translations(players') = Translations(players)
          /\ Translations(enemies') = Translations(enemies)
          /\ spawned' = spawned
          /\ state' = state]_vars

\* C12, amended: an empty tick spawns no enemy, does not advance the spawn
\* timer and moves no entity.  When a transition requested by the frame
\* before is pending it applies it (GameState becomes the requested state,
\* and the restart clears the enemies and the message and creates the
\* Player).  When none is pending GameState and the enemies stay, and the
\* Player stays where it is unless its box already overlaps an Enemy's, in
\* which case the Player is removed and GameOver is requested.
C12_EmptyTickEffect ==
    [][EmptyTick =>
          /\ spawned' = spawned
          /\ frame'.spawns = 0
          /\ spawn_timer'.elapsed = spawn_timer.elapsed
          /\ next_state # "Unchanged" =>
                /\ state' = next_state
                /\ next_state' = "Unchanged"
                /\ IF next_state = "Playing"
                   THEN /\ enemies' = <<>>
                        /\ texts' = 0
                        /\ Translations(players') = <<PlayerEntity.translation>>
                   ELSE /\ enemies' = enemies
                        /\ texts' = 1
                        /\ players' = players
          /\ next_state = "Unchanged" =>
                /\ state' = state
                /\ enemies' = enemies
                /\ texts' = texts
                /\ IF Overlapping(World)
                   THEN players' = <<>> /\ next_state' = "GameOver"
                   ELSE /\ Translations(players') = Translations(players)
                        /\ next_state' = "Unchanged"]_vars

\* C12 witness: an empty tick has just run the four systems with a Player
\* and a falling Enemy present, and nothing is pending.
C12_Witness ==
    /\ frame.empty
    /\ frame.ran = Systems
    /\ keyboard_input.pressed = {}
    /\ Len(players) = 1
    /\ enemies # <<>>
    /\ next_state = "Unchanged"

----------------------------------------------------------------------------
\* a step that is a frame whose Update ran the four game systems
PlayingTick ==
    /\ frame'.ran = Systems
    /\ keyboard_input'.pressed = keyboard_input.pressed

\* C13: every frame run in Playing leaves what the four systems leave when
\* they run once each in the declared order -- player_movement,
\* move_entities, enemy_spawner, check_collisions -- so that the collision
\* test sees the positions the frame's movement produced.
C13_DeclaredOrder ==
    [][PlayingTick =>
          \E delta \in Deltas, arrows \in SUBSET ArrowKeys :
             \E x \in XDraws(delta) :
                Finish(FrameResult(DeclaredOrder, Input(arrows), delta, window, x),
                       Input(arrows), delta)]_vars

----------------------------------------------------------------------------
\* C14: every step that leaves GameState = GameOver -- the frame that
\* enters it and every frame run in it, whatever its length and the keys
\* held -- leaves the enemies exactly as they were: none created, none
\* removed, none moved.  The enemies change in GameOver only in the frame
\* that exits it.
C14_EnemiesFrozen ==
    [][/\ state' = "GameOver" => enemies' = enemies
       /\ (state = "GameOver" /\ enemies' # enemies) => state' = "Playing"]_vars

\* C14 witness: a frame of positive length has run in GameOver, with no
\* restart requested, while two enemies exist, one of them still on screen.
C14_Witness ==
    /\ state = "GameOver"
    /\ next_state = "Unchanged"
    /\ frame.ran = {"restart_game"}
    /\ ~frame.empty
    /\ "KeyR" \notin keyboard_input.pressed
    /\ Len(enemies) >= 2
    /\ \E i \in 1..Len(enemies) : enemies[i].translation[2] > 0 - (window.height \div 2)

----------------------------------------------------------------------------
\* C15: the number of message entities is one whenever GameState is
\* GameOver and zero whenever it is Playing: the entry to GameOver creates
\* exactly one, no frame run in GameOver adds another, and none is left once
\* the game is back in Playing.
C15_MessageIffGameOver ==
    /\ texts = (IF state = "GameOver" THEN 1 ELSE 0)
    /\ (state = "Playing" /\ next_state = "GameOver") =>
          StateTransition(World).texts = 1
    /\ (state = "GameOver" /\ next_state = "Playing") =>
          StateTransition(World).texts = 0

\* C15 witness: the game is back in Playing after a game over (an enemy was
\* spawned in the first play, and the restart has removed it), and the frame
\* that restarted it has run the four systems.
C15_Witness ==
    /\ state = "Playing"
    /\ frame.ran = Systems
    /\ spawned > 0
    /\ enemies = <<>>
    /\ texts = 0

----------------------------------------------------------------------------
\* C16: every Enemy that enemy_spawner creates starts on the top edge,
\* y = window_height / 2, with x in the closed interval
\* [-W/2 + 20, W/2 - 20] and with velocity (0, -ENEMY_SPEED), on a window
\* of any width W.
C16_SpawnPlacement ==
    frame.ran = {"enemy_spawner"} =>
        /\ Len(enemies) = frame.spawns
        /\ \A i \in 1..Len(enemies) :
              /\ 2 * enemies[i].translation[2] = window.height
              /\ 2 * enemies[i].translation[1] >= 2 * 20 - window.width
              /\ 2 * enemies[i].translation[1] <= window.width - 2 * 20
              /\ enemies[i].velocity = <<0, 0 - ENEMY_SPEED>>

\* C16 witness: on a window wider than the game's, an Enemy has been
\* spawned at the left end of the interval.
C16_Witness ==
    /\ frame.ran = {"enemy_spawner"}
    /\ window.width > GameWindow.width
    /\ Len(enemies) = 1
    /\ enemies[1].translation[1] = 20 - (window.width \div 2)

----------------------------------------------------------------------------
\* the orders in which a query may iterate n enemies
ScanOrders(n) == {scan \in [1..n -> 1..n] : Range(scan) = 1..n}

\* the worlds check_collisions may be handed in the next frame: the one the
\* frame starts from, and that one moved by a tick of any length
SeenByCheck ==
    LET w == StateTransition(World)
    IN  IF Len(w.enemies) >= 2
        THEN {w} \cup {move_entities(w, delta, window) : delta \in Deltas}
        ELSE {w}

\* C17: whatever order check_collisions scans the enemies in, it leaves the
\* same result: the same request for GameOver and the same entities once
\* its commands are applied.
C17_ScanOrderIrrelevant ==
    \A w \in SeenByCheck :
        \A scan \in ScanOrders(Len(w.enemies)) :
            Outcome(ApplyCommands(check_collisions_in_order(w, scan)))
                = Outcome(ApplyCommands(check_collisions(w)))

\* C17 witness: a Player and at least two enemies exist, the first enemy
\* overlaps the Player and no other does, so that a scan in reverse order
\* meets a miss before the hit.
C17_Witness ==
    /\ state = "Playing"
    /\ Len(enemies) >= 2
    /\ Overlapping(World)
    /\ ~Overlapping([World EXCEPT !.enemies = Tail(@)])

----------------------------------------------------------------------------
\* C18: run with a Player present, player_movement sets its velocity from
\* the arrow keys held and from nothing else: (-PLAYER_SPEED, 0) when only
\* the left arrow is held, (+PLAYER_SPEED, 0) when only the right one is,
\* (0, 0) when both or neither are; it moves nothing.  The vertical
\* component is 0 in every reachable state, and the Player's y stays the
\* -250 it was created with.
C18_VelocityFromArrows ==
    /\ \A i \in 1..Len(players) :
          /\ players[i].velocity[2] = 0
          /\ players[i].translation[2] = -250
    /\ LET w == StateTransition(World)
       IN  Len(w.players) = 1 =>
             \A arrows \in SUBSET ArrowKeys :
                LET r == player_movement(w, Input(arrows))
                IN  /\ r.players[1].velocity =
                          (IF arrows = {"ArrowLeft"} THEN <<0 - PLAYER_SPEED, 0>>
                           ELSE IF arrows = {"ArrowRight"} THEN <<PLAYER_SPEED, 0>>
                           ELSE <<0, 0>>)
                    /\ Translations(r.players) = Translations(w.players)
                    /\ r.enemies = w.enemies

\* C18 witness: player_movement has run with the left arrow held alone, and
\* the Player, having moved left of the centre, is still at y = -250.
C18_Witness ==
    /\ "player_movement" \in frame.ran
    /\ Len(players) = 1
    /\ players[1].velocity = <<0 - PLAYER_SPEED, 0>>
    /\ players[1].translation[1] < 0
    /\ players[1].translation[2] = -250

----------------------------------------------------------------------------
\* C19: no step taken in Playing removes an Enemy.  A frame that runs the
\* Playing systems keeps every Enemy it started with, in place in the
\* sequence and on its column, and adds the one it spawned, if any; the
\* number of enemies goes down only in the frame that leaves GameOver for
\* Playing, whose state transition removes them all, so that the frame ends
\* with none but the Enemy it may itself have spawned.
C19_EnemiesOnlyGrow ==
    [][/\ state = "Playing" => Len(enemies') >= Len(enemies)
       /\ (PlayingTick /\ state = "Playing") =>
             /\ Len(enemies') = Len(enemies) + frame'.spawns
             /\ \A i \in 1..Len(enemies) :
                   /\ enemies'[i].translation[1] = enemies[i].translation[1]
                   /\ enemies'[i].translation[2] <= enemies[i].translation[2]
       /\ Len(enemies') < Len(enemies) =>
             (state = "GameOver" /\ state' = "Playing")
       /\ (state = "GameOver" /\ state' = "Playing") =>
             /\ StateTransition(World).enemies = <<>>
             /\ Len(enemies') = frame'.spawns]_vars

\* C19 witness: a Playing frame has just spawned an Enemy while an earlier
\* one, fallen wholly below the bottom edge of the window, still exists.
C19_Witness ==
    /\ state = "Playing"
    /\ frame.ran = Systems
    /\ frame.spawns = 1
    /\ Len(enemies) >= 2
    /\ \E i \in 1..Len(enemies) :
          2 * enemies[i].translation[2] + enemies[i].scale[2] < 0 - window.height

----------------------------------------------------------------------------
\* C20: the spawn timer stands still through GameOver and is not reset by
\* the restart.  Every step that leaves GameState = GameOver (the frame that
\* enters it and the frames run in it) leaves the timer as it was; the
\* state transition back to Playing leaves it too, and the Playing systems
\* of that frame tick it on from the elapsed value the collision frame
\* left, spawning an Enemy as soon as that value plus the frame's length
\* reaches the period.
C20_TimerCarriesOver ==
    [][/\ state' = "GameOver" => spawn_timer' = spawn_timer
       /\ (state = "GameOver" /\ state' = "Playing") =>
             /\ StateTransition(World).spawn_timer = spawn_timer
             /\ spawn_timer'.elapsed =
                   (spawn_timer.elapsed + (playtime' - playtime)) % ENEMY_SPAWN_TIME
             /\ frame'.spawns = 1 <=>
                   spawn_timer.elapsed + (playtime' - playtime) >= ENEMY_SPAWN_TIME]_vars

\* C20 witness: after a restart, the first Enemy of the new game has been
\* spawned less than one period of play after the game resumed.
C20_Witness ==
    /\ state = "Playing"
    /\ resumed_at > 0
    /\ frame.spawns = 1
    /\ Len(enemies) = 1
    /\ playtime - resumed_at < ENEMY_SPAWN_TIME

====
